---- MODULE Spec2Model ----
(***************************************************************************)
(* Model of the useKeys hook of use-keys-bindings                          *)
(* (src/src/useKeysBindings.ts): a list of registered commands, the set of *)
(* pressed keys kept in a ref, and the keydown / keyup / blur listeners    *)
(* the hook's effect attaches to the window.                               *)
(*                                                                         *)
(* Callbacks are user code; they are taken to return normally.  What a     *)
(* callback does to the host (for instance a state change that makes the   *)
(* host render again) happens after the handler has returned and is the    *)
(* separate step Rerender.                                                 *)
(***************************************************************************)
EXTENDS Integers, Sequences, FiniteSets, TLC

VARIABLES
    status,       \* "init" | "mounted" | "error" | "unmounted": the host component
    commands,     \* the descriptors passed to useKeys(...commands)
    keySets,      \* keySets[i]: the LowercaseSet built from commands[i].keys
    pressedKeys,  \* pressedKeys.current
    listening,    \* the three window listeners are attached
    lastEvent,    \* history: the last step, [type, key, delivered, afterBlur,
                  \* wasLost]: afterBlur when the step before was a handled blur,
                  \* wasLost when that blur had removed this step's key
    prevPressed,  \* history: pressedKeys.current when the last step began
    fired,        \* history: indices of the callbacks the last step invoked, in order
    prevented,    \* history: e.preventDefault() was called during the last step
    downLast,     \* history: the case-normalized keys whose latest handled event,
                  \* among their keydown, their keyup, a blur and a run of the
                  \* effect's cleanup, was a keydown
    rawFlags      \* history: ctrlKey, shiftKey, altKey, metaKey of the keydown
                  \* event the last step handled (all false for another step)

vars == << status, commands, keySets, pressedKeys, listening, lastEvent,
           prevPressed, fired, prevented, downLast, rawFlags >>

----------------------------------------------------------------------------
(* Bounds and the finite universe the inputs are drawn from.                *)

MaxCommands == 2

\* The values of KeyboardEvent.key the window dispatches.
EventKeys == { "s", "S", "Control", "Shift", "ArrowRight", "ArrowLeft", "ArrowUp" }

\* The KeyModifier names (README, "Key Modifiers").
KeyModifier == { "Control", "Shift", "Alt", "Meta" }

\* String.prototype.toLowerCase on the strings of the model.
toLowerCase(v) ==
    CASE v = "S"          -> "s"
      [] v = "Control"    -> "control"
      [] v = "Shift"      -> "shift"
      [] v = "Alt"        -> "alt"
      [] v = "Meta"       -> "meta"
      [] v = "ArrowRight" -> "arrowright"
      [] v = "ArrowLeft"  -> "arrowleft"
      [] v = "ArrowUp"    -> "arrowup"
      [] v = "Ctrl"       -> "ctrl"
      [] OTHER            -> v

\* A command descriptor.  modifiers.present = FALSE is an absent modifiers
\* property; entries are the [name, required] pairs of Object.entries.  An
\* absent triggerOnAnyKey / preventDefault / enableKeyRepeatOnHold is FALSE.
useKeysCommand(keys, any, mods, pd, rep) ==
    [ keys |-> keys, triggerOnAnyKey |-> any, modifiers |-> mods,
      preventDefault |-> pd, enableKeyRepeatOnHold |-> rep ]

NoModifiers == [ present |-> FALSE, entries |-> {} ]
Modifiers(entries) == [ present |-> TRUE, entries |-> entries ]

\* The descriptors registrations are built from: the README's three examples,
\* an all-keys combination with an upper-case key, a binding of a modifier
\* key with an empty modifiers map, an any-key binding that requires a
\* modifier to be up, and a descriptor without keys.
ArrowsCommand ==
    useKeysCommand(<<"ArrowRight", "ArrowLeft">>, TRUE, NoModifiers, FALSE, FALSE)
SaveCommand ==
    useKeysCommand(<<"s">>, FALSE, Modifiers({<<"Control", TRUE>>}), TRUE, FALSE)
RepeatCommand ==
    useKeysCommand(<<"ArrowUp">>, FALSE, NoModifiers, FALSE, TRUE)
ComboCommand ==
    useKeysCommand(<<"S", "ArrowUp">>, FALSE, NoModifiers, FALSE, FALSE)
ShiftCommand ==
    useKeysCommand(<<"Shift">>, FALSE, Modifiers({}), FALSE, FALSE)
UnshiftedCommand ==
    useKeysCommand(<<"ArrowLeft", "s">>, TRUE, Modifiers({<<"Shift", FALSE>>}), TRUE, FALSE)
EmptyCommand ==
    useKeysCommand(<< >>, FALSE, NoModifiers, TRUE, FALSE)

\* Two descriptors whose modifiers map names something that is no
\* KeyModifier: the name of an ordinary key, and a name no key has.
KeyNamedCommand ==
    useKeysCommand(<<"s">>, FALSE, Modifiers({<<"ArrowUp", TRUE>>}), FALSE, FALSE)
UnknownNameCommand ==
    useKeysCommand(<<"s">>, FALSE, Modifiers({<<"Ctrl", TRUE>>}), FALSE, FALSE)

CommandPool ==
    { ArrowsCommand, SaveCommand, RepeatCommand, ComboCommand, ShiftCommand,
      UnshiftedCommand, EmptyCommand }

Batches == UNION { [1..n -> CommandPool] : n \in 1..MaxCommands }

\* The registrations and keys of the specification that looks at modifiers.
ModifierPool == { SaveCommand, UnshiftedCommand, KeyNamedCommand, UnknownNameCommand }

ModifierBatches == UNION { [1..n -> ModifierPool] : n \in 1..MaxCommands }

ModifierEventKeys == { "s", "Control", "Shift", "ArrowUp" }

\* A KeyboardEvent: its key and its raw modifier flags.
KeyboardEvent(key, ctrlKey, shiftKey, altKey, metaKey) ==
    [ key |-> key, ctrlKey |-> ctrlKey, shiftKey |-> shiftKey,
      altKey |-> altKey, metaKey |-> metaKey ]

\* The events with a key of keys and any ctrlKey and shiftKey; altKey and
\* metaKey, which no registration of the model names, stay false.
KeyboardEvents(keys) ==
    { KeyboardEvent(key, c, sh, FALSE, FALSE) :
        key \in keys, c \in BOOLEAN, sh \in BOOLEAN }

FlagsOf(e) ==
    [ ctrlKey |-> e.ctrlKey, shiftKey |-> e.shiftKey,
      altKey |-> e.altKey, metaKey |-> e.metaKey ]

NoFlags ==
    [ ctrlKey |-> FALSE, shiftKey |-> FALSE, altKey |-> FALSE, metaKey |-> FALSE ]

----------------------------------------------------------------------------
(* class LowercaseSet extends Set<string>                                   *)

\* (a slip: add not overridden, so the value is stored as spelled)
LowercaseSet_add_asSpelled(set, value) == set \cup { value }

LowercaseSet_add(set, value) == set \cup { toLowerCase(value) }

\* (a slip: delete not overridden, so the value is removed as spelled)
LowercaseSet_delete_asSpelled(set, value) == set \ { value }

LowercaseSet_delete(set, value) == set \ { toLowerCase(value) }

LowercaseSet_has(set, value) == toLowerCase(value) \in set

\* new LowercaseSet(iterable): the Set constructor adds each element with add.
LowercaseSet_new(iterable) == { toLowerCase(iterable[j]) : j \in DOMAIN iterable }

----------------------------------------------------------------------------
(* The match: checkModifiers and checkKeys.                                 *)

\* (a slip: a required false is not enforced)
checkModifiers_onlyRequired(pressed, modifiers) ==
    \A entry \in modifiers.entries :
        entry[2] => LowercaseSet_has(pressed, entry[1])

\* (a slip: the modifiers the map does not name must be up)
checkModifiers_exact(pressed, modifiers) ==
    /\ \A entry \in modifiers.entries :
          entry[2] = LowercaseSet_has(pressed, entry[1])
    /\ \A m \in KeyModifier :
          ( \A entry \in modifiers.entries : entry[1] # m ) =>
              ~LowercaseSet_has(pressed, m)

\* (a slip: a name that is no KeyModifier is skipped)
checkModifiers_recognizedOnly(pressed, modifiers) ==
    \A entry \in modifiers.entries :
        entry[1] \in KeyModifier => entry[2] = LowercaseSet_has(pressed, entry[1])

checkModifiers(pressed, modifiers) ==
    IF ~modifiers.present \/ Cardinality(modifiers.entries) = 0
    THEN TRUE
    ELSE \A entry \in modifiers.entries :
            entry[2] = LowercaseSet_has(pressed, entry[1])

\* (a slip: triggerOnAnyKey taken as always set)
checkKeys_alwaysAny(pressed, keySet, triggerOnAnyKey) ==
    \E key \in keySet : LowercaseSet_has(pressed, key)

\* (a slip: triggerOnAnyKey never looked at)
checkKeys_alwaysAll(pressed, keySet, triggerOnAnyKey) ==
    \A key \in keySet : LowercaseSet_has(pressed, key)

checkKeys(pressed, keySet, triggerOnAnyKey) ==
    IF triggerOnAnyKey
    THEN \E key \in keySet : LowercaseSet_has(pressed, key)
    ELSE \A key \in keySet : LowercaseSet_has(pressed, key)

\* One pass of the for loop's body: does command i get its callback invoked?
invokes(pressed, command, keySet) ==
    /\ checkModifiers(pressed, command.modifiers)
    /\ checkKeys(pressed, keySet, command.triggerOnAnyKey)

\* (a slip: the loop runs from the last command down to the first)
RECURSIVE forLoop_backwards(_, _, _, _)
forLoop_backwards(i, pressed, cmds, sets) ==
    IF i > Len(cmds) THEN << >>
    ELSE forLoop_backwards(i + 1, pressed, cmds, sets)
         \o ( IF invokes(pressed, cmds[i], sets[i]) THEN << i >> ELSE << >> )

\* The for loop of handleKeyDown from index i on: the callbacks it invokes,
\* in the order it invokes them.
RECURSIVE forLoop(_, _, _, _)
forLoop(i, pressed, cmds, sets) ==
    IF i > Len(cmds) THEN << >>
    ELSE ( IF invokes(pressed, cmds[i], sets[i]) THEN << i >> ELSE << >> )
         \o forLoop(i + 1, pressed, cmds, sets)

\* The for loop's calls of e.preventDefault().
suppresses(cmds, sets, key) ==
    \E i \in 1..Len(cmds) : cmds[i].preventDefault /\ LowercaseSet_has(sets[i], key)

\* (a slip: no return for a key that is already pressed)
handleKeyDown_noReturn(pressed, cmds, sets, key) ==
    LET added == LowercaseSet_add(pressed, key)
    IN  [ pressedKeys |-> added,
          fired       |-> forLoop(1, added, cmds, sets),
          prevented   |-> suppresses(cmds, sets, key) ]

\* (a slip: e.preventDefault() called after the two checks instead of before)
handleKeyDown_preventOnMatch(pressed, cmds, sets, key) ==
    IF LowercaseSet_has(pressed, key)
    THEN [ pressedKeys |-> pressed, fired |-> << >>, prevented |-> FALSE ]
    ELSE LET added == LowercaseSet_add(pressed, key)
             calls == forLoop(1, added, cmds, sets)
         IN  [ pressedKeys |-> added,
               fired       |-> calls,
               prevented   |-> \E j \in DOMAIN calls :
                                  /\ cmds[calls[j]].preventDefault
                                  /\ LowercaseSet_has(sets[calls[j]], key) ]

\* (a slip: the loop runs on the set as it was before the key was added)
handleKeyDown_checkBeforeAdd(pressed, cmds, sets, key) ==
    IF LowercaseSet_has(pressed, key)
    THEN [ pressedKeys |-> pressed, fired |-> << >>, prevented |-> FALSE ]
    ELSE [ pressedKeys |-> LowercaseSet_add(pressed, key),
           fired       |-> forLoop(1, pressed, cmds, sets),
           prevented   |-> suppresses(cmds, sets, key) ]

\* handleKeyDown: the pressed keys it leaves, the callbacks it invokes and
\* whether it calls e.preventDefault().
handleKeyDown(pressed, cmds, sets, key) ==
    IF LowercaseSet_has(pressed, key)
    THEN [ pressedKeys |-> pressed, fired |-> << >>, prevented |-> FALSE ]
    ELSE LET added == LowercaseSet_add(pressed, key)
         IN  [ pressedKeys |-> added,
               fired       |-> forLoop(1, added, cmds, sets),
               prevented   |-> suppresses(cmds, sets, key) ]

\* (a slip: keyup clears the set instead of deleting the key)
handleKeyUp_clears(pressed, key) == { }

\* (a slip: the modifiers read from the event's flags, as an earlier
\* version of checkModifiers did, the keys from the set)
handleKeyDownEvent_rawModifiers(pressed, cmds, sets, e) ==
    LET flag(name) == CASE name = "Control" -> e.ctrlKey
                        [] name = "Shift"   -> e.shiftKey
                        [] name = "Alt"     -> e.altKey
                        [] name = "Meta"    -> e.metaKey
                        [] OTHER            -> FALSE
        hit(i) == /\ \A entry \in cmds[i].modifiers.entries :
                        entry[2] = flag(entry[1])
                  /\ checkKeys(LowercaseSet_add(pressed, e.key), sets[i],
                               cmds[i].triggerOnAnyKey)
        r == handleKeyDown(pressed, cmds, sets, e.key)
    IN  [ r EXCEPT !.fired = IF LowercaseSet_has(pressed, e.key) THEN << >>
                             ELSE SelectSeq([ i \in 1..Len(cmds) |-> i ], hit) ]

\* handleKeyDown as the listener of keydown: of the event it reads e.key
\* (and calls e.preventDefault()); the raw flags it never reads.
handleKeyDownEvent(pressed, cmds, sets, e) ==
    handleKeyDown(pressed, cmds, sets, e.key)

handleKeyUp(pressed, key) == LowercaseSet_delete(pressed, key)

\* (a slip: the blur listener clears nothing)
handleBlur_keeps(pressed) == pressed

handleBlur(pressed) == { }

\* (a slip: only the first command is looked at)
throwsEmptyKeys_firstOnly(cmds) == Len(cmds[1].keys) = 0

\* The guard of useKeys: it throws when some command has no keys.
throwsEmptyKeys(cmds) == \E i \in 1..Len(cmds) : Len(cmds[i].keys) = 0

\* (a slip: the cleanup removes the listeners and forgets the set)
effectCleanup_keeps(pressed) == pressed

\* The cleanup the effect returns: what it leaves in pressedKeys.current.
effectCleanup(pressed) == { }

----------------------------------------------------------------------------
(* The state machine.                                                       *)

NoEvent ==
    [ type |-> "none", key |-> "", delivered |-> FALSE,
      afterBlur |-> FALSE, wasLost |-> FALSE ]

\* The record of a step.
Step(type, key, delivered) ==
    LET afterBlur == delivered /\ lastEvent.type = "blur" /\ lastEvent.delivered
    IN  [ type |-> type, key |-> key, delivered |-> delivered,
          afterBlur |-> afterBlur,
          wasLost   |-> afterBlur /\ type = "keydown" /\ toLowerCase(key) \in prevPressed ]

Init ==
    /\ status = "init"
    /\ commands \in Batches
    /\ keySets = << >>
    /\ pressedKeys = {}
    /\ listening = FALSE
    /\ lastEvent = NoEvent
    /\ prevPressed = {}
    /\ fired = << >>
    /\ prevented = FALSE
    /\ downLast = {}
    /\ rawFlags = NoFlags

\* The host's first render calls useKeys(...commands); the effect then runs.
Mount ==
    /\ status = "init"
    /\ IF throwsEmptyKeys(commands)
       THEN /\ status' = "error"
            /\ UNCHANGED << keySets, listening >>
       ELSE /\ status' = "mounted"
            /\ keySets' = [ i \in 1..Len(commands) |-> LowercaseSet_new(commands[i].keys) ]
            /\ listening' = TRUE
    /\ lastEvent' = Step("mount", "", FALSE)
    /\ prevPressed' = pressedKeys
    /\ fired' = << >>
    /\ prevented' = FALSE
    /\ rawFlags' = NoFlags
    /\ UNCHANGED << commands, pressedKeys, downLast >>

\* The host renders again with the same commands: the handlers are new
\* closures, so the effect's dependencies changed; its cleanup runs and the
\* effect runs again.
Rerender ==
    /\ status = "mounted"
    /\ ~throwsEmptyKeys(commands)
    /\ keySets' = [ i \in 1..Len(commands) |-> LowercaseSet_new(commands[i].keys) ]
    /\ pressedKeys' = effectCleanup(pressedKeys)
    /\ listening' = TRUE
    /\ lastEvent' = Step("render", "", FALSE)
    /\ prevPressed' = pressedKeys
    /\ fired' = << >>
    /\ prevented' = FALSE
    /\ downLast' = {}
    /\ rawFlags' = NoFlags
    /\ UNCHANGED << status, commands >>

\* The host unmounts: the effect's cleanup runs.
Unmount ==
    /\ status = "mounted"
    /\ status' = "unmounted"
    /\ listening' = FALSE
    /\ pressedKeys' = effectCleanup(pressedKeys)
    /\ lastEvent' = Step("unmount", "", FALSE)
    /\ prevPressed' = pressedKeys
    /\ fired' = << >>
    /\ prevented' = FALSE
    /\ downLast' = {}
    /\ rawFlags' = NoFlags
    /\ UNCHANGED << commands, keySets >>

\* The window dispatches an event while no listener of the hook is attached.
Unheard(type, key) ==
    /\ ~listening
    /\ status # "init"
    /\ lastEvent' = Step(type, key, FALSE)
    /\ prevPressed' = pressedKeys
    /\ fired' = << >>
    /\ prevented' = FALSE
    /\ rawFlags' = NoFlags
    /\ UNCHANGED << status, commands, keySets, pressedKeys, listening, downLast >>

\* The window dispatches the keydown event e.
KeyDownEvent(e) ==
    \/ /\ listening
       /\ LET r == handleKeyDownEvent(pressedKeys, commands, keySets, e)
          IN  /\ pressedKeys' = r.pressedKeys
              /\ fired' = r.fired
              /\ prevented' = r.prevented
       /\ lastEvent' = Step("keydown", e.key, TRUE)
       /\ prevPressed' = pressedKeys
       /\ downLast' = downLast \cup { toLowerCase(e.key) }
       /\ rawFlags' = FlagsOf(e)
       /\ UNCHANGED << status, commands, keySets, listening >>
    \/ Unheard("keydown", e.key)

\* The keydown event of a key as a keyboard reports it whose modifiers are
\* down exactly when the hook holds them.
ReportedEvent(key) ==
    LET held == pressedKeys \cup { toLowerCase(key) }
    IN  KeyboardEvent(key, "control" \in held, "shift" \in held,
                      "alt" \in held, "meta" \in held)

\* The window dispatches keydown with e.key = key.
KeyDown(key) == KeyDownEvent(ReportedEvent(key))

\* The window dispatches keyup with e.key = key.
KeyUp(key) ==
    \/ /\ listening
       /\ pressedKeys' = handleKeyUp(pressedKeys, key)
       /\ fired' = << >>
       /\ prevented' = FALSE
       /\ lastEvent' = Step("keyup", key, TRUE)
       /\ prevPressed' = pressedKeys
       /\ downLast' = downLast \ { toLowerCase(key) }
       /\ rawFlags' = NoFlags
       /\ UNCHANGED << status, commands, keySets, listening >>
    \/ Unheard("keyup", key)

\* The window loses focus.
Blur ==
    \/ /\ listening
       /\ pressedKeys' = handleBlur(pressedKeys)
       /\ fired' = << >>
       /\ prevented' = FALSE
       /\ lastEvent' = Step("blur", "", TRUE)
       /\ prevPressed' = pressedKeys
       /\ downLast' = {}
       /\ rawFlags' = NoFlags
       /\ UNCHANGED << status, commands, keySets, listening >>
    \/ Unheard("blur", "")

Next ==
    \/ Mount
    \/ Rerender
    \/ Unmount
    \/ \E key \in EventKeys : KeyDown(key)
    \/ \E key \in EventKeys : KeyUp(key)
    \/ Blur

Spec == Init /\ [][Next]_vars

\* The same hook with registrations whose modifiers maps matter, and keydown
\* events that carry every combination of raw modifier flags, also those
\* that disagree with the held keys (a modifier held through a blur or a
\* render, a synthetic event).
InitModifiers ==
    /\ status = "init"
    /\ commands \in ModifierBatches
    /\ keySets = << >>
    /\ pressedKeys = {}
    /\ listening = FALSE
    /\ lastEvent = NoEvent
    /\ prevPressed = {}
    /\ fired = << >>
    /\ prevented = FALSE
    /\ downLast = {}
    /\ rawFlags = NoFlags

NextModifiers ==
    \/ Mount
    \/ Rerender
    \/ Unmount
    \/ \E e \in KeyboardEvents(ModifierEventKeys) : KeyDownEvent(e)
    \/ \E key \in ModifierEventKeys : KeyUp(key)
    \/ Blur

SpecModifiers == InitModifiers /\ [][NextModifiers]_vars

----------------------------------------------------------------------------
(* Vocabulary of the properties.                                            *)

Bindings == 1..Len(commands)

\* The last step invoked the callback of binding i.
Invoked(i) == \E j \in DOMAIN fired : fired[j] = i

\* The last step was a keydown the hook's listener handled.
HandledKeyDown == lastEvent.type = "keydown" /\ lastEvent.delivered

\* ... of a key that was not held / that was already held when it arrived.
FreshKeyDown == HandledKeyDown /\ toLowerCase(lastEvent.key) \notin prevPressed
RepeatKeyDown == HandledKeyDown /\ toLowerCase(lastEvent.key) \in prevPressed

\* The keys of a descriptor, case-normalized.
KeysOf(command) == { toLowerCase(command.keys[j]) : j \in DOMAIN command.keys }

\* The descriptor names no modifier: its modifiers map is absent or empty.
Unconstrained(command) == ~command.modifiers.present \/ command.modifiers.entries = {}

\* The match as the specification words it, on a held-key set H.
ModifiersMet(command, H) ==
    \A entry \in command.modifiers.entries :
        entry[2] = ( toLowerCase(entry[1]) \in H )

KeysMet(command, H) ==
    IF command.triggerOnAnyKey
    THEN KeysOf(command) \cap H # {}
    ELSE KeysOf(command) \subseteq H

\* The modifiers a descriptor's map does not name.
Unnamed(command) ==
    { m \in KeyModifier : \A entry \in command.modifiers.entries : entry[1] # m }

\* Some binding with preventDefault has the key in its key set.
SuppressionDue(key) ==
    \E i \in Bindings :
        commands[i].preventDefault /\ toLowerCase(key) \in KeysOf(commands[i])

\* What a combination needs held: its keys and the modifiers it requires.
Needed(command) ==
    KeysOf(command) \cup
    { toLowerCase(entry[1]) : entry \in { x \in command.modifiers.entries : x[2] } }

HasEmptyKeys(cmds) == \E i \in DOMAIN cmds : cmds[i].keys = << >>

----------------------------------------------------------------------------
(* C1: registration fails exactly when some descriptor has no keys; after   *)
(* a failed registration no listener is attached and no later key event    *)
(* invokes a callback of the batch, suppresses a default action or is      *)
(* recorded as held.                                                       *)
C1_EmptyKeysRejected ==
    /\ status # "init" => ( status = "error" <=> HasEmptyKeys(commands) )
    /\ status = "mounted" => listening
    /\ status = "error" =>
          /\ ~listening
          /\ fired = << >>
          /\ ~prevented
          /\ pressedKeys = {}

\* A failed registration whose batch also holds a usable binding, and a
\* later keydown of that binding's key.
C1_Witness ==
    /\ status = "error"
    /\ lastEvent.type = "keydown"
    /\ \E i \in Bindings :
          /\ commands[i].keys # << >>
          /\ commands[i].triggerOnAnyKey
          /\ toLowerCase(lastEvent.key) \in KeysOf(commands[i])

(* C2: for a binding with triggerOnAnyKey false and no modifiers, a         *)
(* keydown of a key that was not held invokes the callback if and only if  *)
(* every key of the binding is held once the pressed key has been added.   *)
C2_AllKeysIff ==
    FreshKeyDown =>
        \A i \in Bindings :
            ( ~commands[i].triggerOnAnyKey /\ Unconstrained(commands[i]) ) =>
                ( Invoked(i) <=> KeysOf(commands[i]) \subseteq pressedKeys )

\* The two-key combination without a modifiers map completed by the second
\* press, after an earlier press of one of its keys alone did not invoke it.
C2_Witness ==
    /\ FreshKeyDown
    /\ \E i \in Bindings :
          /\ commands[i] = ComboCommand
          /\ Invoked(i)
          /\ prevPressed # {}
          /\ pressedKeys = { "s", "arrowup" }

(* C3: for a binding with triggerOnAnyKey true and no modifiers, a keydown  *)
(* of a key that was not held invokes the callback if and only if at least *)
(* one key of the binding is held once the pressed key has been added; for *)
(* keys ArrowRight, ArrowLeft a press of either one alone invokes it.      *)
C3_AnyKeyIff ==
    FreshKeyDown =>
        \A i \in Bindings :
            ( commands[i].triggerOnAnyKey /\ Unconstrained(commands[i]) ) =>
                /\ Invoked(i) <=> KeysOf(commands[i]) \cap pressedKeys # {}
                /\ ( /\ commands[i] = ArrowsCommand
                     /\ pressedKeys \in { {"arrowright"}, {"arrowleft"} } ) => Invoked(i)

\* ArrowLeft pressed alone, ArrowRight being up again, invokes the callback.
C3_Witness ==
    /\ FreshKeyDown
    /\ lastEvent.key = "ArrowLeft"
    /\ pressedKeys = { "arrowleft" }
    /\ \E i \in Bindings : commands[i] = ArrowsCommand /\ Invoked(i)

(* C4: a binding with a modifiers map is invoked by a keydown only if every *)
(* modifier the map names is held exactly when the map requires it; the    *)
(* binding of s with Control required is invoked by a press of s if and    *)
(* only if Control is held.                                                *)
C4_ModifiersRequired ==
    HandledKeyDown =>
        \A i \in Bindings :
            /\ ( Invoked(i) /\ commands[i].modifiers.present ) =>
                   ModifiersMet(commands[i], pressedKeys)
            /\ ( commands[i] = SaveCommand /\ FreshKeyDown
                 /\ toLowerCase(lastEvent.key) = "s" ) =>
                   ( Invoked(i) <=> "control" \in prevPressed )

\* s pressed while Control is held invokes the save binding.
C4_Witness ==
    /\ FreshKeyDown
    /\ toLowerCase(lastEvent.key) = "s"
    /\ "control" \in prevPressed
    /\ \E i \in Bindings : commands[i] = SaveCommand /\ Invoked(i)

(* C5: modifiers a binding's map does not name are unconstrained: when a    *)
(* keydown invokes a binding with held-key set H, the binding also matches *)
(* H plus any modifier its map does not name, and the same keydown         *)
(* arriving with that modifier held as well invokes it too; s pressed      *)
(* while Control and Shift are held invokes the binding of s with Control  *)
(* required.                                                               *)
C5_UnnamedModifiersFree ==
    HandledKeyDown =>
        \A i \in Bindings :
            /\ Invoked(i) =>
                  \A m \in Unnamed(commands[i]) :
                      /\ invokes(pressedKeys \cup { toLowerCase(m) },
                                 commands[i], keySets[i])
                      /\ toLowerCase(m) # toLowerCase(lastEvent.key) =>
                            \E j \in DOMAIN handleKeyDown(
                                        prevPressed \cup { toLowerCase(m) },
                                        commands, keySets, lastEvent.key).fired :
                                handleKeyDown(prevPressed \cup { toLowerCase(m) },
                                              commands, keySets, lastEvent.key).fired[j] = i
            /\ ( commands[i] = SaveCommand /\ FreshKeyDown
                 /\ toLowerCase(lastEvent.key) = "s"
                 /\ { "control", "shift" } \subseteq prevPressed ) => Invoked(i)

\* s pressed while Control and Shift are both held invokes the save binding.
C5_Witness ==
    /\ FreshKeyDown
    /\ toLowerCase(lastEvent.key) = "s"
    /\ { "control", "shift" } \subseteq prevPressed
    /\ \E i \in Bindings : commands[i] = SaveCommand /\ Invoked(i)

(* C6: a keydown for a key that is already in the held-key set invokes the  *)
(* callback of no binding that does not request repeat-on-hold, and leaves *)
(* the held-key set as it was; the press that put the key there invoked    *)
(* each binding at most once, so a key that stays in the set through any   *)
(* number of repeat keydowns fires a binding once.                         *)
C6_NoRefireWhileHeld ==
    /\ RepeatKeyDown =>
          /\ \A i \in Bindings : ~commands[i].enableKeyRepeatOnHold => ~Invoked(i)
          /\ pressedKeys = prevPressed
    /\ HandledKeyDown =>
          \A j, k \in DOMAIN fired : fired[j] = fired[k] => j = k

\* A repeat keydown of a key of a binding whose keys and modifiers are met.
C6_Witness ==
    /\ RepeatKeyDown
    /\ \E i \in Bindings :
          /\ ~commands[i].enableKeyRepeatOnHold
          /\ toLowerCase(lastEvent.key) \in KeysOf(commands[i])
          /\ ModifiersMet(commands[i], pressedKeys)
          /\ KeysMet(commands[i], pressedKeys)

(* C7: a keydown for an already-held key invokes a binding that requests    *)
(* repeat-on-hold whenever the binding matches, and invokes no binding     *)
(* that does not request it.                                               *)
C7_RepeatOnHoldRefires ==
    RepeatKeyDown =>
        \A i \in Bindings :
            Invoked(i) <=>
                /\ commands[i].enableKeyRepeatOnHold
                /\ ModifiersMet(commands[i], pressedKeys)
                /\ KeysMet(commands[i], pressedKeys)

(* C8: on a keydown of a key that was not held, the default action is       *)
(* suppressed if and only if some binding with preventDefault has the key  *)
(* (case-insensitively) in its key set, whether or not that binding's      *)
(* callback is invoked.                                                    *)
C8_PreventDefaultIff ==
    FreshKeyDown => ( prevented <=> SuppressionDue(lastEvent.key) )

\* The default action is suppressed by a keydown that invokes no callback.
C8_Witness ==
    /\ FreshKeyDown
    /\ prevented
    /\ fired = << >>

(* C9: on a keydown for a key that is already held, the default action is   *)
(* still suppressed whenever some binding with preventDefault has the key  *)
(* in its key set.                                                         *)
C9_PreventDefaultOnRepeat ==
    RepeatKeyDown => ( prevented <=> SuppressionDue(lastEvent.key) )

(* C10: a handled focus-loss empties the held-key set, and the keydown that *)
(* follows it is a fresh press: its key becomes the only held key and      *)
(* exactly the bindings matching that set are invoked, also when the key   *)
(* was held before the focus-loss and never released.                      *)
C10_BlurClears ==
    /\ ( lastEvent.type = "blur" /\ lastEvent.delivered ) => pressedKeys = {}
    /\ ( HandledKeyDown /\ lastEvent.afterBlur ) =>
          /\ prevPressed = {}
          /\ pressedKeys = { toLowerCase(lastEvent.key) }
          /\ \A i \in Bindings :
                Invoked(i) <=> ( /\ ModifiersMet(commands[i], pressedKeys)
                                 /\ KeysMet(commands[i], pressedKeys) )

\* A key that the focus-loss removed is pressed again and invokes a binding.
C10_Witness ==
    /\ HandledKeyDown
    /\ lastEvent.wasLost
    /\ fired # << >>

(* C11: key comparisons are case-insensitive: the held-key set holds only   *)
(* case-normalized keys; a handled keydown leaves its key held and a       *)
(* handled keyup leaves it not held, however the two events spell it; a    *)
(* keydown whose key is held under another spelling is a repeat; the       *)
(* combination registered with S is invoked by a keydown of s; and the     *)
(* default action of S is suppressed for a binding registered with s.      *)
C11_CaseInsensitive ==
    /\ \A k \in pressedKeys : toLowerCase(k) = k
    /\ HandledKeyDown => toLowerCase(lastEvent.key) \in pressedKeys
    /\ ( lastEvent.type = "keyup" /\ lastEvent.delivered ) =>
          \A k \in EventKeys :
              toLowerCase(k) = toLowerCase(lastEvent.key) =>
                  ( k \notin pressedKeys /\ toLowerCase(k) \notin pressedKeys )
    /\ RepeatKeyDown => ( fired = << >> /\ pressedKeys = prevPressed )
    /\ ( FreshKeyDown /\ lastEvent.key = "s" /\ "arrowup" \in prevPressed ) =>
          \A i \in Bindings : commands[i] = ComboCommand => Invoked(i)
    /\ ( FreshKeyDown /\ lastEvent.key = "S" ) =>
          ( ( \E i \in Bindings : commands[i] = SaveCommand ) => prevented )

\* A keyup spelled S releases the key that was held as s.
C11_Witness ==
    /\ lastEvent.type = "keyup"
    /\ lastEvent.delivered
    /\ lastEvent.key = "S"
    /\ "s" \in prevPressed
    /\ "s" \notin pressedKeys

(* C12: once the host has unmounted, no listener is attached, the held-key  *)
(* set is empty, and no later event invokes a callback, suppresses a       *)
(* default action or is recorded as held.                                  *)
C12_DetachStops ==
    status = "unmounted" =>
        /\ ~listening
        /\ pressedKeys = {}
        /\ fired = << >>
        /\ ~prevented

\* After the unmount, a keydown of a key that alone satisfies a binding.
C12_Witness ==
    /\ status = "unmounted"
    /\ lastEvent.type = "keydown"
    /\ \E i \in Bindings :
          /\ ModifiersMet(commands[i], { toLowerCase(lastEvent.key) })
          /\ KeysMet(commands[i], { toLowerCase(lastEvent.key) })

(* C13: a handled keydown invokes each binding at most once, in             *)
(* registration order, and whether a binding is invoked depends only on    *)
(* that binding and the held-key set: it is invoked if and only if the key *)
(* was not held and the binding's modifiers and keys are met.              *)
C13_RegistrationOrder ==
    HandledKeyDown =>
        /\ \A j, k \in DOMAIN fired : j < k => fired[j] < fired[k]
        /\ \A i \in Bindings :
              Invoked(i) <=> ( /\ FreshKeyDown
                               /\ ModifiersMet(commands[i], pressedKeys)
                               /\ KeysMet(commands[i], pressedKeys) )

\* One keydown invokes two different bindings, the first registered first.
C13_Witness ==
    /\ HandledKeyDown
    /\ Len(commands) = 2
    /\ commands[1] # commands[2]
    /\ fired = << 1, 2 >>

(* C14: in every state the held-key set is exactly the set of               *)
(* case-normalized keys whose latest handled event, among a keydown of the *)
(* key, a keyup of the key, a focus-loss and a detach (a run of the        *)
(* effect's cleanup, at unmount or when the effect is run again), was a    *)
(* keydown.                                                                *)
C14_HeldIsLastDown == pressedKeys = downLast

\* After a keyup of one key another key, pressed before it, is still held.
C14_Witness ==
    /\ lastEvent.type = "keyup"
    /\ lastEvent.delivered
    /\ pressedKeys # prevPressed
    /\ pressedKeys # {}

(* C15: a handled keyup removes the released key and no other from the      *)
(* held-key set, invokes no callback and suppresses no default action; for *)
(* a key that is not held it changes nothing.                              *)
C15_KeyUpFrame ==
    ( lastEvent.type = "keyup" /\ lastEvent.delivered ) =>
        /\ pressedKeys = prevPressed \ { toLowerCase(lastEvent.key) }
        /\ toLowerCase(lastEvent.key) \notin prevPressed => pressedKeys = prevPressed
        /\ fired = << >>
        /\ ~prevented

\* One of several held keys is released and the others stay held.
C15_Witness ==
    /\ lastEvent.type = "keyup"
    /\ lastEvent.delivered
    /\ toLowerCase(lastEvent.key) \in prevPressed
    /\ Cardinality(pressedKeys) >= 2

(* C16: the held-key set changes only in the keydown, keyup and focus-loss  *)
(* handlers and at the final detach; a render of the host with the same    *)
(* bindings leaves it unchanged.                                           *)
C16_OnlyHandlersChange ==
    pressedKeys # prevPressed =>
        lastEvent.type \in { "keydown", "keyup", "blur", "unmount" }

(* C17: the modifier check reads the held-key set alone: a handled keydown  *)
(* leaves the same held keys, invokes the same callbacks and suppresses    *)
(* the default action alike whatever raw modifier flags the event carries, *)
(* and a binding is invoked only if the held-key set meets its modifiers.  *)
(* So after a focus-loss a press of s whose event reports ctrlKey does not *)
(* invoke the binding of s with Control required.                          *)
C17_HeldSetIsTheSource ==
    HandledKeyDown =>
        /\ \A e \in KeyboardEvents({ lastEvent.key }) :
              handleKeyDownEvent(prevPressed, commands, keySets, e) =
                  [ pressedKeys |-> pressedKeys, fired |-> fired,
                    prevented |-> prevented ]
        /\ \A i \in Bindings :
              /\ Invoked(i) => ModifiersMet(commands[i], pressedKeys)
              /\ ( /\ commands[i] = SaveCommand
                   /\ lastEvent.afterBlur
                   /\ toLowerCase(lastEvent.key) = "s" ) => ~Invoked(i)

\* Right after a focus-loss s is pressed with ctrlKey set in the event: the
\* binding of s with Control required is not invoked.
C17_Witness ==
    /\ HandledKeyDown
    /\ lastEvent.afterBlur
    /\ toLowerCase(lastEvent.key) = "s"
    /\ rawFlags.ctrlKey
    /\ fired = << >>
    /\ \E i \in Bindings : commands[i] = SaveCommand

(* C18 as claimed: a modifiers map that names something that is no          *)
(* KeyModifier is no error, and a binding that requires such a name is     *)
(* never invoked.                                                          *)
C18_UnrecognizedNeverInvoked ==
    /\ status # "error"
    /\ \A i \in Bindings :
          ( \E entry \in commands[i].modifiers.entries :
                entry[1] \notin KeyModifier /\ entry[2] ) => ~Invoked(i)

(* C18 as amended: a modifiers map that names something that is no          *)
(* KeyModifier is no error at registration or at an event, and the name is *)
(* treated as a key: the binding is invoked by a keydown of a key that was *)
(* not held if and only if its keys are met and each named requirement     *)
(* equals whether a key of that name, compared case-insensitively, is      *)
(* held.  A binding that requires a name no key event carries is never     *)
(* invoked.                                                                *)
C18_UnrecognizedNameIsKey ==
    /\ status # "error"
    /\ \A i \in Bindings :
          ( \E entry \in commands[i].modifiers.entries : entry[1] \notin KeyModifier ) =>
              /\ Invoked(i) <=> ( /\ FreshKeyDown
                                  /\ KeysMet(commands[i], pressedKeys)
                                  /\ \A entry \in commands[i].modifiers.entries :
                                        entry[2] = ( toLowerCase(entry[1]) \in pressedKeys ) )
              /\ ( \E entry \in commands[i].modifiers.entries :
                      /\ entry[2]
                      /\ \A key \in ModifierEventKeys :
                            toLowerCase(key) # toLowerCase(entry[1]) ) => ~Invoked(i)

\* s pressed while ArrowUp is held invokes the binding whose modifiers map
\* requires ArrowUp.
C18_Witness ==
    /\ FreshKeyDown
    /\ toLowerCase(lastEvent.key) = "s"
    /\ "arrowup" \in prevPressed
    /\ \E i \in Bindings : commands[i] = KeyNamedCommand /\ Invoked(i)

(* C19: a binding's callback is invoked only by a keydown of a key of its   *)
(* own key set; stated for the keys the binding does not name at all,      *)
(* neither in its key set nor in its modifiers map.                        *)
C19_OnlyOwnKeys ==
    HandledKeyDown =>
        \A i \in Bindings :
            ( /\ Invoked(i)
              /\ \A entry \in commands[i].modifiers.entries :
                    toLowerCase(entry[1]) # toLowerCase(lastEvent.key) ) =>
                toLowerCase(lastEvent.key) \in KeysOf(commands[i])

(* C20: firing of a combination does not depend on press order: while only  *)
(* keys and required modifiers of a binding with triggerOnAnyKey false are *)
(* held, a keydown of a key that was not held invokes the binding, once,   *)
(* if and only if it makes the last of them held.  A run of presses from   *)
(* the empty set without a release passes through strictly growing held    *)
(* sets, so in any order it invokes the binding at its last press and at   *)
(* no earlier one.                                                         *)
C20_PressOrderFree ==
    FreshKeyDown =>
        /\ \A j, k \in DOMAIN fired : fired[j] = fired[k] => j = k
        /\ \A i \in Bindings :
              ( /\ ~commands[i].triggerOnAnyKey
                /\ pressedKeys \subseteq Needed(commands[i]) ) =>
                  ( Invoked(i) <=> pressedKeys = Needed(commands[i]) )

\* The modifier pressed last, after the key, completes the combination.
C20_Witness ==
    /\ FreshKeyDown
    /\ lastEvent.key = "Control"
    /\ prevPressed = { "s" }
    /\ \E i \in Bindings : commands[i] = SaveCommand /\ Invoked(i)

====
